---- MODULE Spec2Model ----
(***************************************************************************)
(* Scene graph of src/engine/object3d.rs: Object3D nodes held in           *)
(* Rc<RefCell<..>>, cached local/world matrices behind a dirty flag, weak  *)
(* parent links, strong child links, and the draw traversal with the       *)
(* camera's depth test (src/engine/camera.rs) and the matrix library       *)
(* (src/engine/math/matrixfuncs.rs).                                       *)
(*                                                                         *)
(* Matrices are 16-tuples in column-major order; the code's index i is the *)
(* tuple's index i+1.  Components are small integers, on which f32         *)
(* arithmetic is exact.                                                    *)
(***************************************************************************)
EXTENDS Integers, Sequences, FiniteSets, TLC

\* ---------------------------------------------------------------- bounds
NumNodes == 3
MaxOps == 3
MaxEvents == 4
MaxDepth == 100

Nodes == 1..NumNodes
None == 0

\* ------------------------------------------------------- matrix library
At(m, i) == m[i + 1]

IDENTITY_MATRIX == <<1, 0, 0, 0,  0, 1, 0, 0,  0, 0, 1, 0,  0, 0, 0, 1>>

\* translation_matrix that writes the position into the bottom row
translation_matrix_row_major(pos) ==
    <<1, 0, 0, pos[1],
      0, 1, 0, pos[2],
      0, 0, 1, pos[3],
      0, 0, 0, 1>>

translation_matrix(pos) ==
    <<1, 0, 0, 0,
      0, 1, 0, 0,
      0, 0, 1, 0,
      pos[1], pos[2], pos[3], 1>>

scale_matrix(s) ==
    <<s[1], 0, 0, 0,
      0, s[2], 0, 0,
      0, 0, s[3], 0,
      0, 0, 0, 1>>

rotation_matrix_from_quat(q) ==
    LET x == q[1]
        y == q[2]
        z == q[3]
        w == q[4]
        xx == x * x
        yy == y * y
        zz == z * z
        xy == x * y
        xz == x * z
        yz == y * z
        wx == w * x
        wy == w * y
        wz == w * z
    IN  <<1 - 2 * (yy + zz), 2 * (xy + wz), 2 * (xz - wy), 0,
          2 * (xy - wz), 1 - 2 * (xx + zz), 2 * (yz + wx), 0,
          2 * (xz + wy), 2 * (yz - wx), 1 - 2 * (xx + yy), 0,
          0, 0, 0, 1>>

\* result[col * 4 + row] of matrix_mul_4x4
MulEntry(a, b, row, col) ==
    At(a, 0 * 4 + row) * At(b, col * 4 + 0) +
    At(a, 1 * 4 + row) * At(b, col * 4 + 1) +
    At(a, 2 * 4 + row) * At(b, col * 4 + 2) +
    At(a, 3 * 4 + row) * At(b, col * 4 + 3)

matrix_mul_4x4(a, b) ==
    <<MulEntry(a, b, 0, 0), MulEntry(a, b, 1, 0), MulEntry(a, b, 2, 0),
      MulEntry(a, b, 3, 0),
      MulEntry(a, b, 0, 1), MulEntry(a, b, 1, 1), MulEntry(a, b, 2, 1),
      MulEntry(a, b, 3, 1),
      MulEntry(a, b, 0, 2), MulEntry(a, b, 1, 2), MulEntry(a, b, 2, 2),
      MulEntry(a, b, 3, 2),
      MulEntry(a, b, 0, 3), MulEntry(a, b, 1, 3), MulEntry(a, b, 2, 3),
      MulEntry(a, b, 3, 3)>>

compute_local_matrix(position, rotation, scale) ==
    matrix_mul_4x4(
        matrix_mul_4x4(translation_matrix(position),
                       rotation_matrix_from_quat(rotation)),
        scale_matrix(scale))

\* --------------------------------------------------------------- camera
\* near and far are kept in tenths (near = 0.1 is Near10 = 1).
\* aspect is the ratio <<width, height>> the constructor is given.
CameraNew == [position |-> <<0, 0, 5>>, rotation |-> <<0, 0, 0, 1>>,
              aspect |-> <<1, 1>>, near10 |-> 1, far10 |-> 1000]

view_matrix(cam) ==
    matrix_mul_4x4(rotation_matrix_from_quat(cam.rotation),
                   translation_matrix(<<0 - cam.position[1],
                                        0 - cam.position[2],
                                        0 - cam.position[3]>>))

\* projection * view, of which only row 2 (the row intersects_sphere reads)
\* is represented: the other rows depend on tan(fov_y / 2) and on aspect and
\* are read by nothing in the core.  The projection's row 2 is
\* (0, 0, (far+near)*nf, 2*far*near*nf) with nf = 1/(near-far); the entries
\* are rationals <<numerator, denominator>> over the common denominator
\* 10*(near10 - far10), which is negative when near < far.
proj_view_matrix(cam) ==
    LET v == view_matrix(cam)
        p10 == (cam.far10 + cam.near10) * 10
        p14 == 2 * cam.far10 * cam.near10
        den == 10 * (cam.near10 - cam.far10)
    IN  [m2 |-> p10 * At(v, 2) + p14 * At(v, 3),
         m6 |-> p10 * At(v, 6) + p14 * At(v, 7),
         m10 |-> p10 * At(v, 10) + p14 * At(v, 11),
         m14 |-> p10 * At(v, 14) + p14 * At(v, 15),
         den |-> den]

\* The cameras a frame is drawn with: the one Camera::new gives, and that
\* camera moved to the origin.
Cameras == {CameraNew, [CameraNew EXCEPT !.position = <<0, 0, 0>>]}

\* proj_view_matrix over Cameras, evaluated once.
RECURSIVE ProjViewTable(_)

ProjViewTable(S) ==
    IF S = {} THEN <<>>
    ELSE LET cam == CHOOSE c \in S : TRUE
         IN  (cam :> proj_view_matrix(cam)) @@ ProjViewTable(S \ {cam})

ProjViews == ProjViewTable(Cameras)

\* a/d > c and a/d < c for a rational a/d with d # 0 and an integer c
RatGt(a, d, c) == IF d > 0 THEN a > c * d ELSE a < c * d
RatLt(a, d, c) == IF d > 0 THEN a < c * d ELSE a > c * d

intersects_sphere(cam, world_pos, radius) ==
    LET m == ProjViews[cam]
        clip_z == m.m2 * world_pos[1] + m.m6 * world_pos[2] +
                  m.m10 * world_pos[3] + m.m14
    IN  /\ RatGt(clip_z + radius * m.den, m.den, 0 - 1)
        /\ RatLt(clip_z - radius * m.den, m.den, 1)

\* ------------------------------------------------------------ the heap
VARIABLES heap, panicked, nops, renderer, trace, call

vars == <<heap, panicked, nops, renderer, trace, call>>

Positions == {<<1, 2, 5>>}
Rotations == {<<0, 0, 1, 0>>}
Scales == {<<2, 1, 1>>}
Geometries == {"tri"}
\* The positions given to nodes that keep identity rotation and unit scale.
ChainPositions == {<<1, 0, 0>>, <<0, 2, 0>>, <<0 - 3, 4, 7>>}

Range(s) == {s[i] : i \in 1..Len(s)}

\* Object3D::new: the struct as constructed, held by the caller's Rc.
Object3DNew ==
    [state |-> "live", held |-> TRUE,
     position |-> <<0, 0, 0>>, rotation |-> <<0, 0, 0, 1>>,
     scale |-> <<1, 1, 1>>,
     local_matrix |-> IDENTITY_MATRIX, world_matrix |-> IDENTITY_MATRIX,
     dirty |-> TRUE, parent |-> None, children |-> <<>>,
     geometry |-> "none", gl_mesh |-> "unset", shader |-> "none"]

\* compute_local_matrix over every transform a node of the model can have,
\* evaluated once.
Transforms ==
    ({Object3DNew.position} \cup Positions \cup ChainPositions) \X
    ({Object3DNew.rotation} \cup Rotations) \X
    ({Object3DNew.scale} \cup Scales)

RECURSIVE LocalMatrixTable(_)

LocalMatrixTable(S) ==
    IF S = {} THEN <<>>
    ELSE LET t == CHOOSE x \in S : TRUE
         IN  (t :> compute_local_matrix(t[1], t[2], t[3])) @@
             LocalMatrixTable(S \ {t})

LocalMatrices == LocalMatrixTable(Transforms)

\* compute_local_matrix(self.position, self.rotation, self.scale)
Local(o) == LocalMatrices[<<o.position, o.rotation, o.scale>>]

\* A node whose last Rc is gone.
Dead == [Object3DNew EXCEPT !.state = "dead", !.held = FALSE]

Live(h, n) == n # None /\ h[n].state = "live"

\* Weak::upgrade: resolves while the referent has a strong owner left.
Upgrade(h, p) == Live(h, p)

Result(h, ret, panic, lg) == [h |-> h, ret |-> ret, panic |-> panic, log |-> lg]

\* ------------------------------------------------------- Object3D methods
\* b is the set of nodes whose RefCell is mutably borrowed at this point;
\* borrow_mut on a member of b panics.
RECURSIVE mark_dirty(_, _, _, _), mark_dirty_children(_, _, _, _, _)

\* mark_dirty that flips the flag
mark_dirty_toggle(h, n, b, lg) ==
    Result([h EXCEPT ![n].dirty = ~@], <<>>, FALSE,
           Append(lg, <<"mark_dirty", n, "set">>))

\* mark_dirty that sets the flag without walking the children
mark_dirty_flag_only(h, n, b, lg) ==
    Result([h EXCEPT ![n].dirty = TRUE], <<>>, FALSE,
           Append(lg, <<"mark_dirty", n, "set">>))

\* mark_dirty that walks the children of a node that is already dirty
mark_dirty_no_check(h, n, b, lg) ==
    mark_dirty_children([h EXCEPT ![n].dirty = TRUE], n, 1, b,
                        Append(lg, <<"mark_dirty", n, "set">>))

mark_dirty(h, n, b, lg) ==
    IF ~h[n].dirty
    THEN mark_dirty_children([h EXCEPT ![n].dirty = TRUE], n, 1, b,
                             Append(lg, <<"mark_dirty", n, "set">>))
    ELSE Result(h, <<>>, FALSE, Append(lg, <<"mark_dirty", n, "skip">>))

mark_dirty_children(h, n, i, b, lg) ==
    IF i > Len(h[n].children)
    THEN Result(h, <<>>, FALSE, lg)
    ELSE LET c == h[n].children[i]
         IN  IF c \in b
             THEN Result(h, <<>>, TRUE, Append(lg, <<"panic", c>>))
             ELSE LET r == mark_dirty(h, c, b \cup {c}, lg)
                  IN  IF r.panic THEN r
                      ELSE mark_dirty_children(r.h, n, i + 1, b, r.log)

RECURSIVE world_matrix(_, _, _, _)

\* world_matrix that multiplies by the parent's cached matrix without
\* asking the parent for it
world_matrix_stale_parent(h, n, b, lg) ==
    IF h[n].dirty
    THEN LET local == Local(h[n])
             h1 == [h EXCEPT ![n].local_matrix = local]
             lg1 == Append(lg, <<"compute_local_matrix", n>>)
             p == h[n].parent
         IN  IF p # None /\ Upgrade(h, p)
             THEN LET w == matrix_mul_4x4(h[p].world_matrix, local)
                  IN  Result([h1 EXCEPT ![n].world_matrix = w,
                                        ![n].dirty = FALSE],
                             w, FALSE, Append(lg1, <<"matrix_mul_4x4", n>>))
             ELSE Result([h1 EXCEPT ![n].world_matrix = local,
                                    ![n].dirty = FALSE],
                         local, FALSE, lg1)
    ELSE Result(h, h[n].world_matrix, FALSE, lg)

\* world_matrix that multiplies by the parent's cached matrix first and
\* brings the parent up to date afterwards
world_matrix_parent_last(h, n, b, lg) ==
    IF h[n].dirty
    THEN LET local == Local(h[n])
             h1 == [h EXCEPT ![n].local_matrix = local]
             lg1 == Append(lg, <<"compute_local_matrix", n>>)
             p == h[n].parent
         IN  IF p # None /\ Upgrade(h, p)
             THEN IF p \in b
                  THEN Result(h1, <<>>, TRUE, Append(lg1, <<"panic", p>>))
                  ELSE LET w == matrix_mul_4x4(h[p].world_matrix, local)
                           r == world_matrix(h1, p, b \cup {p},
                                    Append(lg1, <<"matrix_mul_4x4", n>>))
                       IN  IF r.panic THEN r
                           ELSE Result([r.h EXCEPT ![n].world_matrix = w,
                                                   ![n].dirty = FALSE],
                                       w, FALSE, r.log)
             ELSE Result([h1 EXCEPT ![n].world_matrix = local,
                                    ![n].dirty = FALSE],
                         local, FALSE, lg1)
    ELSE Result(h, h[n].world_matrix, FALSE, lg)

\* world_matrix that takes every node for a root
world_matrix_as_root(h, n, b, lg) ==
    IF h[n].dirty
    THEN LET local == Local(h[n])
         IN  Result([h EXCEPT ![n].local_matrix = local,
                              ![n].world_matrix = local,
                              ![n].dirty = FALSE],
                    local, FALSE, Append(lg, <<"compute_local_matrix", n>>))
    ELSE Result(h, h[n].world_matrix, FALSE, lg)

\* world_matrix that recomputes but leaves the dirty flag set
world_matrix_keeps_dirty(h, n, b, lg) ==
    IF h[n].dirty
    THEN LET local == Local(h[n])
             h1 == [h EXCEPT ![n].local_matrix = local]
             lg1 == Append(lg, <<"compute_local_matrix", n>>)
             p == h[n].parent
         IN  IF p # None /\ Upgrade(h, p)
             THEN IF p \in b
                  THEN Result(h1, <<>>, TRUE, Append(lg1, <<"panic", p>>))
                  ELSE LET r == world_matrix(h1, p, b \cup {p}, lg1)
                           w == matrix_mul_4x4(r.ret, local)
                       IN  IF r.panic THEN r
                           ELSE Result([r.h EXCEPT ![n].world_matrix = w],
                                       w, FALSE,
                                       Append(r.log, <<"matrix_mul_4x4", n>>))
             ELSE Result([h1 EXCEPT ![n].world_matrix = local],
                         local, FALSE, lg1)
    ELSE Result(h, h[n].world_matrix, FALSE, lg)

\* world_matrix that keeps the cached world matrix when the parent link
\* no longer resolves
world_matrix_no_fallback(h, n, b, lg) ==
    IF h[n].dirty
    THEN LET local == Local(h[n])
             h1 == [h EXCEPT ![n].local_matrix = local]
             lg1 == Append(lg, <<"compute_local_matrix", n>>)
             p == h[n].parent
         IN  IF p # None /\ Upgrade(h, p)
             THEN IF p \in b
                  THEN Result(h1, <<>>, TRUE, Append(lg1, <<"panic", p>>))
                  ELSE LET r == world_matrix(h1, p, b \cup {p}, lg1)
                           w == matrix_mul_4x4(r.ret, local)
                       IN  IF r.panic THEN r
                           ELSE Result([r.h EXCEPT ![n].world_matrix = w,
                                                   ![n].dirty = FALSE],
                                       w, FALSE,
                                       Append(r.log, <<"matrix_mul_4x4", n>>))
             ELSE IF p # None
             THEN Result([h1 EXCEPT ![n].dirty = FALSE],
                         h[n].world_matrix, FALSE, lg1)
             ELSE Result([h1 EXCEPT ![n].world_matrix = local,
                                    ![n].dirty = FALSE],
                         local, FALSE, lg1)
    ELSE Result(h, h[n].world_matrix, FALSE, lg)

\* world_matrix that recomputes whether or not the node is dirty
world_matrix_always(h, n, b, lg) ==
    LET local == Local(h[n])
        h1 == [h EXCEPT ![n].local_matrix = local]
        lg1 == Append(lg, <<"compute_local_matrix", n>>)
        p == h[n].parent
    IN  IF p # None /\ Upgrade(h, p)
        THEN IF p \in b
             THEN Result(h1, <<>>, TRUE, Append(lg1, <<"panic", p>>))
             ELSE LET r == world_matrix(h1, p, b \cup {p}, lg1)
                      w == matrix_mul_4x4(r.ret, local)
                  IN  IF r.panic THEN r
                      ELSE Result([r.h EXCEPT ![n].world_matrix = w,
                                              ![n].dirty = FALSE],
                                  w, FALSE,
                                  Append(r.log, <<"matrix_mul_4x4", n>>))
        ELSE Result([h1 EXCEPT ![n].world_matrix = local,
                               ![n].dirty = FALSE],
                    local, FALSE, lg1)

world_matrix(h, n, b, lg) ==
    IF h[n].dirty
    THEN LET local == Local(h[n])
             h1 == [h EXCEPT ![n].local_matrix = local]
             lg1 == Append(lg, <<"compute_local_matrix", n>>)
             p == h[n].parent
         IN  IF p # None /\ Upgrade(h, p)
             THEN IF p \in b
                  THEN Result(h1, <<>>, TRUE, Append(lg1, <<"panic", p>>))
                  ELSE LET r == world_matrix(h1, p, b \cup {p}, lg1)
                           w == matrix_mul_4x4(r.ret, local)
                       IN  IF r.panic THEN r
                           ELSE Result([r.h EXCEPT ![n].world_matrix = w,
                                                   ![n].dirty = FALSE],
                                       w, FALSE,
                                       Append(r.log, <<"matrix_mul_4x4", n>>))
             ELSE Result([h1 EXCEPT ![n].world_matrix = local,
                                    ![n].dirty = FALSE],
                         local, FALSE, lg1)
    ELSE Result(h, h[n].world_matrix, FALSE, lg)

\* local_matrix that clears the dirty flag after recomputing
local_matrix_clears_flag(h, n, lg) ==
    IF h[n].dirty
    THEN LET local == Local(h[n])
         IN  Result([h EXCEPT ![n].local_matrix = local, ![n].dirty = FALSE],
                    local, FALSE, Append(lg, <<"compute_local_matrix", n>>))
    ELSE Result(h, h[n].local_matrix, FALSE, lg)

\* local_matrix that refreshes the cached world matrix as well
local_matrix_updates_world(h, n, lg) ==
    IF h[n].dirty
    THEN LET local == Local(h[n])
         IN  Result([h EXCEPT ![n].local_matrix = local,
                              ![n].world_matrix = local],
                    local, FALSE, Append(lg, <<"compute_local_matrix", n>>))
    ELSE Result(h, h[n].local_matrix, FALSE, lg)

local_matrix(h, n, lg) ==
    IF h[n].dirty
    THEN LET local == Local(h[n])
         IN  Result([h EXCEPT ![n].local_matrix = local], local, FALSE,
                    Append(lg, <<"compute_local_matrix", n>>))
    ELSE Result(h, h[n].local_matrix, FALSE, lg)

\* DrawNode that uploads the geometry into a new mesh on every draw
DrawNode_rebuilds(h, n, cam, w, lg) ==
    LET mesh == IF h[n].gl_mesh = "mesh1" THEN "mesh2" ELSE "mesh1"
    IN  IF h[n].geometry # "none"
        THEN Result([h EXCEPT ![n].gl_mesh = mesh], <<>>, FALSE,
                    Append(lg, <<"DrawElements", n, mesh>>))
        ELSE Result(h, <<>>, FALSE, lg)

\* Lines 233-252 of draw: the uniform uploads and the indexed draw call of
\* one node, as events appended to the log.
DrawNode(h, n, cam, w, lg) ==
    LET lg1 == IF h[n].shader # "none"
               THEN lg \o <<<<"set_uniform_matrix4", n, "u_model", w>>,
                             <<"set_uniform_matrix4", n, "u_proj_view",
                               proj_view_matrix(cam)>>>>
               ELSE lg
        lg2 == IF h[n].gl_mesh # "unset"
               THEN Append(lg1, <<"DrawElements", n, h[n].gl_mesh>>)
               ELSE lg1
    IN  Result(h, <<>>, FALSE, lg2)

RECURSIVE draw(_, _, _, _, _), draw_children(_, _, _, _, _, _)

\* draw that notes the failed culling test and goes on
draw_no_return(h, n, cam, b, lg) ==
    LET r == world_matrix(h, n, b, Append(lg, <<"draw", n>>))
        w == r.ret
        world_pos == <<At(w, 12), At(w, 13), At(w, 14)>>
        lg1 == IF ~intersects_sphere(cam, world_pos, 1)
               THEN Append(r.log, <<"culled", n>>)
               ELSE r.log
    IN  IF r.panic THEN r
        ELSE LET d == DrawNode(r.h, n, cam, w, lg1)
             IN  draw_children(d.h, n, 1, cam, b, d.log)

draw(h, n, cam, b, lg) ==
    LET r == world_matrix(h, n, b, Append(lg, <<"draw", n>>))
        w == r.ret
        world_pos == <<At(w, 12), At(w, 13), At(w, 14)>>
    IN  IF r.panic THEN r
        ELSE IF ~intersects_sphere(cam, world_pos, 1)
        THEN Result(r.h, <<>>, FALSE, Append(r.log, <<"culled", n>>))
        ELSE LET d == DrawNode(r.h, n, cam, w, r.log)
             IN  draw_children(d.h, n, 1, cam, b, d.log)

draw_children(h, n, i, cam, b, lg) ==
    IF i > Len(h[n].children)
    THEN Result(h, <<>>, FALSE, lg)
    ELSE LET c == h[n].children[i]
         IN  IF c \in b
             THEN Result(h, <<>>, TRUE, Append(lg, <<"panic", c>>))
             ELSE LET r == draw(h, c, cam, b \cup {c}, lg)
                  IN  IF r.panic THEN r
                      ELSE draw_children(r.h, n, i + 1, cam, b, r.log)

\* Dropping Rc handles: a live node with no external handle and in no live
\* node's children vector is destroyed, and its children vector with it.
RECURSIVE Collect(_)

\* Collect that takes a child's parent link for an owner of the parent
Collect_counts_parent(h) ==
    LET gone == {n \in Nodes :
                    /\ h[n].state = "live"
                    /\ ~h[n].held
                    /\ \A m \in Nodes :
                          h[m].state = "live" =>
                              /\ n \notin Range(h[m].children)
                              /\ h[m].parent # n}
    IN  IF gone = {} THEN h
        ELSE Collect([n \in Nodes |-> IF n \in gone THEN Dead ELSE h[n]])

Collect(h) ==
    LET gone == {n \in Nodes :
                    /\ h[n].state = "live"
                    /\ ~h[n].held
                    /\ \A m \in Nodes :
                          h[m].state = "live" => n \notin Range(h[m].children)}
    IN  IF gone = {} THEN h
        ELSE Collect([n \in Nodes |-> IF n \in gone THEN Dead ELSE h[n]])

\* ------------------------------------------------ the public calls
\* Each call is made through the node's Rc: x.borrow_mut().f(..), so x is
\* borrowed for the length of the call.
\* add_child that links the child without marking it dirty
add_child_no_mark(h, this, child) ==
    Result([h EXCEPT ![child].parent = this,
                     ![this].children = Append(@, child)],
           <<>>, FALSE, <<>>)

add_child(h, this, child) ==
    LET h1 == [h EXCEPT ![child].parent = this]
        r == mark_dirty(h1, child, {child}, <<>>)
    IN  IF r.panic THEN r
        ELSE Result([r.h EXCEPT ![this].children = Append(@, child)],
                    <<>>, FALSE, r.log)

set_geometry(h, n, g) ==
    mark_dirty([h EXCEPT ![n].geometry = g], n, {n}, <<>>)

\* set_position that stores the position without marking the node dirty
set_position_no_mark(h, n, pos) ==
    Result([h EXCEPT ![n].position = pos], <<>>, FALSE, <<>>)

\* set_position that recomputes the cached local matrix at once
set_position_eager(h, n, pos) ==
    mark_dirty([h EXCEPT ![n].position = pos,
                         ![n].local_matrix =
                             LocalMatrices[<<pos, h[n].rotation, h[n].scale>>]],
               n, {n}, <<>>)

set_position(h, n, pos) ==
    mark_dirty([h EXCEPT ![n].position = pos], n, {n}, <<>>)

set_rotation(h, n, rot) ==
    mark_dirty([h EXCEPT ![n].rotation = rot], n, {n}, <<>>)

set_scale(h, n, s) ==
    mark_dirty([h EXCEPT ![n].scale = s], n, {n}, <<>>)

\* The caller lets go of its handle on n.
drop(h, n) ==
    Result(Collect([h EXCEPT ![n].held = FALSE]), <<>>, FALSE, <<>>)

\* ---------------------------------------------------- the render driver
\* Renderer::new: no camera, no scene.  control_flow is what the last call
\* of the event handler left in *control_flow; redraw_requested is whether
\* the renderer's window has a redraw request the event loop has yet to
\* answer.
RendererNew ==
    [camera |-> None, scene |-> None, control_flow |-> "Wait",
     redraw_requested |-> FALSE]

\* The sizes a Resized event can carry.
WindowSizes == {<<1024, 768>>, <<600, 600>>}

\* Lines 211-216 of the handler: the scene is drawn when the renderer has
\* both a camera and a scene.  The scene is owned by value, so drawing it
\* borrows no Rc.
DrawScene(rd, h) ==
    IF rd.camera # None /\ rd.scene # None
    THEN draw(h, rd.scene, rd.camera, {}, <<>>)
    ELSE Result(h, <<>>, FALSE, <<>>)

\* The closure without the request_redraw call that ends it
handle_event_no_request(rd, h, ev) ==
    [rd |-> [rd EXCEPT !.control_flow =
                IF ev[1] = "CloseRequested" THEN "Exit" ELSE "Wait",
                       !.redraw_requested = FALSE],
     redraw |-> ev[1] = "RedrawRequested",
     requested |-> FALSE,
     r |-> IF ev[1] = "RedrawRequested" THEN DrawScene(rd, h)
           ELSE Result(h, <<>>, FALSE, <<>>)]

\* One call of the closure Renderer::run gives to event_loop.run, for the
\* event ev: the renderer it leaves, whether it took the RedrawRequested
\* arm, whether it reached the request_redraw call that ends it, and the
\* outcome r of drawing the scene in the RedrawRequested arm.  The event
\* loop answers the window's redraw request by delivering the event, and
\* the handler's last call makes the next request.
handle_event(rd, h, ev) ==
    CHOOSE x \in
        {[rd |-> [rd EXCEPT !.control_flow =
                     IF ev[1] = "CloseRequested" THEN "Exit" ELSE "Wait",
                            !.redraw_requested = ~r.panic],
          redraw |-> ev[1] = "RedrawRequested",
          requested |-> ~r.panic,
          r |-> r] :
         r \in {IF ev[1] = "RedrawRequested" THEN DrawScene(rd, h)
                ELSE Result(h, <<>>, FALSE, <<>>)}} : TRUE

\* The calls the handler run x made on the GL context, the scene and the
\* window, in order; a panic in the scene's draw ends the run.
HandlerCalls(x) ==
    LET clear == IF x.redraw THEN <<<<"Clear">>>> ELSE <<>>
        scene == IF x.r.log # <<>> THEN <<x.r.log[1]>> ELSE <<>>
        swap == IF x.redraw /\ ~x.r.panic
                THEN <<<<"swap_buffers">>>> ELSE <<>>
        request == IF x.requested THEN <<<<"request_redraw">>>> ELSE <<>>
    IN  clear \o scene \o swap \o request

\* The events delivered so far, as positions in the trace.
EventAt(tr) == {i \in 1..Len(tr) : tr[i][1] = "event"}

\* ---------------------------------------------- calls of pure functions
\* call holds the last call made of a function that has no effect: its
\* name, its arguments and what it returned.
NoCall == [fn |-> "none", args |-> <<>>, ret |-> <<>>]

\* The sphere centres intersects_sphere is called with: on and off the
\* camera's axis, from behind the camera to MaxDepth in front of the
\* origin, and one far beyond the far plane.
Centres ==
    {<<x, 0, z>> : x \in {0, 3}, z \in ((0 - MaxDepth)..10) \cup {0 - 500}}

\* ------------------------------------------------------------- actions
\* The program has created NumNodes nodes with Object3D::new and holds a
\* handle on each.
Init ==
    /\ heap = [n \in Nodes |-> Object3DNew]
    /\ panicked = FALSE
    /\ nops = 0
    /\ renderer = RendererNew
    /\ trace = <<>>
    /\ call = NoCall

\* The outcome of a call: the heap it leaves and whether it panicked.
Finish(r) ==
    /\ heap' = r.h
    /\ panicked' = r.panic
    /\ nops' = nops + 1
    /\ UNCHANGED <<renderer, trace, call>>

\* The caller can name n: the program has not panicked and holds a handle.
Held(n) ==
    /\ ~panicked
    /\ heap[n].state = "live"
    /\ heap[n].held

\* A node exactly as Object3D::new left it, which nothing refers to.
Fresh(n) ==
    /\ heap[n] = Object3DNew
    /\ \A m \in Nodes : heap[m].parent # n /\ n \notin Range(heap[m].children)

\* Nodes are numbered in the order the program first uses them: a call whose
\* arguments are ns, in this order, names a fresh node only when every
\* lower-numbered node is in use or is an earlier argument.
InOrder(ns) ==
    \A i \in 1..Len(ns) :
        Fresh(ns[i]) =>
            \A m \in 1..(ns[i] - 1) :
                ~Fresh(m) \/ \E j \in 1..(i - 1) : ns[j] = m

Callable(ns) ==
    /\ nops < MaxOps
    /\ \A i \in 1..Len(ns) : Held(ns[i])
    /\ InOrder(ns)

\* add_child(this, child.clone()): the caller keeps its own handle on the
\* child; moving the handle in is this followed by Drop.
AddChild ==
    \E this \in Nodes, child \in Nodes :
        /\ Callable(<<this, child>>)
        /\ Finish(add_child(heap, this, child))

SetGeometry ==
    \E n \in Nodes, g \in Geometries :
        /\ Callable(<<n>>)
        /\ Finish(set_geometry(heap, n, g))

SetPosition ==
    \E n \in Nodes, pos \in Positions :
        /\ Callable(<<n>>)
        /\ Finish(set_position(heap, n, pos))

SetRotation ==
    \E n \in Nodes, rot \in Rotations :
        /\ Callable(<<n>>)
        /\ Finish(set_rotation(heap, n, rot))

SetScale ==
    \E n \in Nodes, s \in Scales :
        /\ Callable(<<n>>)
        /\ Finish(set_scale(heap, n, s))

LocalMatrix ==
    \E n \in Nodes :
        /\ Callable(<<n>>)
        /\ Finish(local_matrix(heap, n, <<>>))

WorldMatrix ==
    \E n \in Nodes :
        /\ Callable(<<n>>)
        /\ Finish(world_matrix(heap, n, {n}, <<>>))

Draw ==
    \E n \in Nodes, cam \in Cameras :
        /\ Callable(<<n>>)
        /\ Finish(draw(heap, n, cam, {n}, <<>>))

Drop ==
    \E n \in Nodes :
        /\ Callable(<<n>>)
        /\ Finish(drop(heap, n))

Next ==
    \/ AddChild
    \/ SetGeometry
    \/ SetPosition
    \/ SetRotation
    \/ SetScale
    \/ LocalMatrix
    \/ WorldMatrix
    \/ Draw
    \/ Drop

Spec == Init /\ [][Next]_vars

\* The same program without the handle releases of Drop.
NextNoDrop ==
    \/ AddChild
    \/ SetGeometry
    \/ SetPosition
    \/ SetRotation
    \/ SetScale
    \/ LocalMatrix
    \/ WorldMatrix
    \/ Draw

SpecNoDrop == Init /\ [][NextNoDrop]_vars

\* The program of main.rs: Renderer::new, then run.  The event loop calls
\* the handler once per event until the handler asks for Exit.
Deliver(ev) ==
    /\ ~panicked
    /\ renderer.control_flow # "Exit"
    /\ Cardinality(EventAt(trace)) < MaxEvents
    /\ \E x \in {handle_event(renderer, heap, ev)} :
          /\ renderer' = x.rd
          /\ heap' = x.r.h
          /\ panicked' = x.r.panic
          /\ trace' = trace \o <<<<"event">> \o ev>> \o HandlerCalls(x)
    /\ UNCHANGED <<nops, call>>

RedrawRequested == Deliver(<<"RedrawRequested">>)

CloseRequested == Deliver(<<"CloseRequested">>)

Resized == \E size \in WindowSizes : Deliver(<<"Resized", size>>)

\* Any event the handler has no arm for.
OtherEvent == Deliver(<<"MainEventsCleared">>)

RenderNext ==
    \/ RedrawRequested
    \/ CloseRequested
    \/ Resized
    \/ OtherEvent

RenderSpec == Init /\ [][RenderNext]_vars

\* The same program with the event loop running without end.  trace holds
\* the MaxEvents most recent handler runs.
Recent(tr) ==
    IF Cardinality(EventAt(tr)) <= MaxEvents THEN tr
    ELSE LET second == CHOOSE j \in EventAt(tr) :
                           Cardinality({k \in EventAt(tr) : k < j}) = 1
         IN  SubSeq(tr, second, Len(tr))

\* One iteration of the loop.  RedrawRequested is what the loop delivers
\* in answer to the request request_redraw left on the window.
LoopDeliver(ev) ==
    /\ ~panicked
    /\ renderer.control_flow # "Exit"
    /\ ev[1] = "RedrawRequested" => renderer.redraw_requested
    /\ \E x \in {handle_event(renderer, heap, ev)} :
          /\ renderer' = x.rd
          /\ heap' = x.r.h
          /\ panicked' = x.r.panic
          /\ trace' = Recent(trace \o <<<<"event">> \o ev>> \o HandlerCalls(x))
    /\ UNCHANGED <<nops, call>>

LoopRedraw == LoopDeliver(<<"RedrawRequested">>)

LoopClose == LoopDeliver(<<"CloseRequested">>)

LoopResized == \E size \in WindowSizes : LoopDeliver(<<"Resized", size>>)

\* The events the loop emits on every iteration, the first one at start-up
\* (NewEvents, MainEventsCleared).
LoopOther == LoopDeliver(<<"MainEventsCleared">>)

LoopNext ==
    \/ LoopRedraw
    \/ LoopClose
    \/ LoopResized
    \/ LoopOther

\* Fair event delivery: the loop keeps iterating, and a redraw request
\* that stays on the window is answered.
LoopSpec ==
    /\ Init
    /\ [][LoopNext]_vars
    /\ WF_vars(LoopOther)
    /\ WF_vars(LoopRedraw)

\* A program that builds chains of translated nodes and reads their
\* matrices: rotation and scale stay as Object3D::new left them.
ChainSetPosition ==
    \E n \in Nodes, pos \in ChainPositions :
        /\ Callable(<<n>>)
        /\ Finish(set_position(heap, n, pos))

ChainNext ==
    \/ AddChild
    \/ ChainSetPosition
    \/ LocalMatrix
    \/ WorldMatrix

ChainSpec == Init /\ [][ChainNext]_vars

\* A program that asks cameras whether unit spheres are visible.
IntersectsSphere ==
    \E cam \in Cameras, pos \in Centres :
        /\ call' = [fn |-> "intersects_sphere", args |-> <<cam, pos, 1>>,
                    ret |-> intersects_sphere(cam, pos, 1)]
        /\ UNCHANGED <<heap, panicked, nops, renderer, trace>>

CullNext == IntersectsSphere

CullSpec == Init /\ [][CullNext]_vars

\* ------------------------------------------------- shapes of the graph
RECURSIVE Reach(_, _)

Reach(h, S) ==
    LET T == S \cup UNION {Range(h[m].children) : m \in S}
    IN  IF T = S THEN S ELSE Reach(h, T)

\* The descendants of n through children vectors.
Desc(h, n) == Reach(h, Range(h[n].children))

Occurrences(h, c) ==
    Cardinality({mi \in Nodes \X (1..(MaxOps + 1)) :
                    /\ mi[2] <= Len(h[mi[1]].children)
                    /\ h[mi[1]].children[mi[2]] = c})

\* Every node sits in at most one children vector, once, its parent link
\* names that vector's owner, and no node is its own descendant.
Forest(h) ==
    \A c \in Nodes :
        /\ Occurrences(h, c) <= 1
        /\ \A m \in Nodes : c \in Range(h[m].children) => h[c].parent = m
        /\ Live(h, h[c].parent) => c \in Range(h[h[c].parent].children)
        /\ c \notin Desc(h, c)

\* What a recomputation from the current transforms gives, up the chain of
\* parents that still resolve.
RECURSIVE FreshWorld(_, _)

FreshWorld(h, n) ==
    LET l == Local(h[n])
    IN  IF Live(h, h[n].parent)
        THEN matrix_mul_4x4(FreshWorld(h, h[n].parent), l)
        ELSE l

\* ---------------------------------------------------------------- C1
\* C1: without handle releases, on a forest, every clean node caches the
\* local matrix of its current transform and the world matrix a fresh
\* recomputation up its parent chain gives, its parent is clean, and
\* world_matrix() on any node returns that fresh value.
C1_NoStaleRead ==
    Forest(heap) =>
        \A n \in Nodes :
            /\ ~heap[n].dirty =>
                  /\ heap[n].local_matrix = Local(heap[n])
                  /\ heap[n].world_matrix = FreshWorld(heap, n)
                  /\ heap[n].parent # None => ~heap[heap[n].parent].dirty
            /\ Held(n) =>
                  LET r == world_matrix(heap, n, {n}, <<>>)
                  IN  ~r.panic /\ r.ret = FreshWorld(heap, n)

\* A clean child under a parent that was moved and marked dirty again after
\* the child was first read: the child's cache was refreshed.
C1_Witness ==
    /\ Forest(heap)
    /\ \E n \in Nodes :
          /\ Held(n)
          /\ ~heap[n].dirty
          /\ heap[n].parent # None
          /\ heap[n].world_matrix # heap[n].local_matrix
          /\ world_matrix(heap, n, {n}, <<>>).ret = FreshWorld(heap, n)

\* ------------------------------------------------- reading a call's log
\* The results of every setter call the caller can make on n.
SetterResults(n) ==
    {set_geometry(heap, n, g) : g \in Geometries} \cup
    {set_position(heap, n, pos) : pos \in Positions} \cup
    {set_rotation(heap, n, rot) : rot \in Rotations} \cup
    {set_scale(heap, n, sc) : sc \in Scales}

Events(lg, kind, n) ==
    {i \in 1..Len(lg) : lg[i][1] = kind /\ lg[i][2] = n}

Drawn(lg) == {lg[i][2] : i \in {j \in 1..Len(lg) : lg[j][1] = "draw"}}

Culled(lg) == {lg[i][2] : i \in {j \in 1..Len(lg) : lg[j][1] = "culled"}}

IsDrawOf(e, S) == e[1] = "draw" /\ e[2] \in S

\* The nodes on which draw was entered from n's loop over its children.
ChildDraws(lg, h, n) ==
    LET sel == SelectSeq(lg, LAMBDA e : IsDrawOf(e, Range(h[n].children)))
    IN  [i \in 1..Len(sel) |-> sel[i][2]]

\* Whether n, drawn now, passes the culling test of cam.
Visible(h, n, cam) ==
    LET r == world_matrix(h, n, {n}, <<>>)
        w == r.ret
    IN  /\ ~r.panic
        /\ intersects_sphere(cam, <<At(w, 12), At(w, 13), At(w, 14)>>, 1)

\* ---------------------------------------------------------------- C2
\* C2 as stated: after any setter returns on X, X and every descendant of X
\* are dirty, whatever calls came before.
C2_AnySequence ==
    \A n \in Nodes :
        Held(n) =>
            \A r \in SetterResults(n) :
                ~r.panic => \A d \in {n} \cup Desc(r.h, n) : r.h[d].dirty

\* C2 amended: after any setter returns on X, X and every descendant of X
\* are dirty, provided the nodes form a forest (no node attached twice or
\* into a cycle).
C2_DirtyPropagation ==
    Forest(heap) =>
        \A n \in Nodes :
            Held(n) =>
                \A r \in SetterResults(n) :
                    /\ ~r.panic
                    /\ \A d \in {n} \cup Desc(r.h, n) : r.h[d].dirty

\* A clean node with a clean child and a clean grandchild, about to be set.
C2_Witness ==
    /\ Forest(heap)
    /\ \E n \in Nodes, d \in Nodes, e \in Nodes :
          /\ Held(n)
          /\ d \in Range(heap[n].children)
          /\ e \in Range(heap[d].children)
          /\ ~heap[n].dirty /\ ~heap[d].dirty /\ ~heap[e].dirty
          /\ \A r \in SetterResults(n) : r.h[d].dirty /\ r.h[e].dirty

\* ---------------------------------------------------------------- C3
\* The heaps in which c's parent is gone: the current one when the parent
\* is already destroyed, and the one after the caller drops its handle on
\* the parent when that destroys it.
ParentGone(c) ==
    LET p == heap[c].parent
    IN  IF p = None THEN {}
        ELSE IF ~Live(heap, p) THEN {heap}
        ELSE {h1 \in {drop(heap, p).h} : heap[p].held /\ ~Live(h1, p)}

\* C3: once a retained child's parent is destroyed, the child's next
\* world_matrix() returns the child's own local_matrix(), whether the child
\* was dirty or clean at that moment.
C3_DanglingFallback ==
    \A c \in Nodes :
        Held(c) =>
            \A h1 \in ParentGone(c) :
                LET r == world_matrix(h1, c, {c}, <<>>)
                IN  r.ret = local_matrix(r.h, c, <<>>).ret

\* ---------------------------------------------------------------- C4
\* C4: on a tree, draw on a node that passes the culling test runs to
\* completion, enters draw on each child once in attachment order, and
\* leaves every visited node clean.
C4_DrawTraversal ==
    Forest(heap) =>
        \A n \in Nodes, cam \in Cameras :
            (Held(n) /\ Visible(heap, n, cam)) =>
                LET r == draw(heap, n, cam, {n}, <<>>)
                IN  /\ ~r.panic
                    /\ ChildDraws(r.log, heap, n) = heap[n].children
                    /\ \A m \in Drawn(r.log) : ~r.h[m].dirty

\* ---------------------------------------------------------------- C5
\* C5: a node that fails the culling test gets no uniform upload and no
\* draw call, and draw is entered on none of its descendants; a culled
\* root ends the whole traversal.
C5_SubtreeCulling ==
    \A n \in Nodes, cam \in Cameras :
        Held(n) =>
            LET r == draw(heap, n, cam, {n}, <<>>)
            IN  /\ \A c \in Culled(r.log) :
                      /\ Events(r.log, "set_uniform_matrix4", c) = {}
                      /\ Events(r.log, "DrawElements", c) = {}
                      /\ Forest(heap) => Desc(heap, c) \cap Drawn(r.log) = {}
                /\ n \in Culled(r.log) => Drawn(r.log) = {n} /\ ~r.panic

\* A root that fails the test while it has a child that would pass it.
C5_Witness ==
    \E n \in Nodes, cam \in Cameras :
        /\ Held(n)
        /\ n \in Culled(draw(heap, n, cam, {n}, <<>>).log)
        /\ \E c \in Range(heap[n].children) :
              /\ heap[c].position # heap[n].position
              /\ Forest(heap)

\* ---------------------------------------------------------------- C6
\* C6: a second world_matrix() right after a first returns the same matrix,
\* calls neither compute_local_matrix nor matrix_mul_4x4 on any node, and
\* changes nothing.
C6_CleanInvariant ==
    \A n \in Nodes :
        Held(n) =>
            LET r1 == world_matrix(heap, n, {n}, <<>>)
                r2 == world_matrix(r1.h, n, {n}, <<>>)
            IN  ~r1.panic =>
                    /\ ~r2.panic
                    /\ r2.ret = r1.ret
                    /\ r2.log = <<>>
                    /\ r2.h = r1.h

\* A dirty node under a dirty parent: the first call recomputes both.
C6_Witness ==
    \E n \in Nodes :
        /\ Held(n)
        /\ heap[n].dirty
        /\ Live(heap, heap[n].parent)
        /\ heap[heap[n].parent].dirty
        /\ LET r1 == world_matrix(heap, n, {n}, <<>>)
           IN  /\ ~r1.panic
               /\ Len(r1.log) >= 3
               /\ r1.ret # IDENTITY_MATRIX

\* ---------------------------------------------------------------- C7
AddChildLinks(this, child, r) ==
    /\ r.h[child].parent = this
    /\ r.h[this].children = Append(heap[this].children, child)
    /\ \A m \in Nodes \ {this} : r.h[m].children = heap[m].children
    /\ r.h[child].dirty

\* C7 as stated: add_child(parent, child) links the child to the parent,
\* appends it after the children already there, detaches it from nothing,
\* and leaves the child and every descendant of the child dirty.
C7_AnySequence ==
    \A this \in Nodes, child \in Nodes :
        (Held(this) /\ Held(child)) =>
            LET r == add_child(heap, this, child)
            IN  ~r.panic =>
                    /\ AddChildLinks(this, child, r)
                    /\ \A d \in Desc(r.h, child) : r.h[d].dirty

\* C7 amended: the same, with the descendants of the child dirty provided
\* the nodes formed a forest before the call.
C7_AddChild ==
    \A this \in Nodes, child \in Nodes :
        (Held(this) /\ Held(child)) =>
            LET r == add_child(heap, this, child)
            IN  ~r.panic =>
                    /\ AddChildLinks(this, child, r)
                    /\ Forest(heap) => \A d \in Desc(r.h, child) : r.h[d].dirty

\* A clean child with a clean child of its own, attached under a node that
\* already has a child, while it stays in its previous parent's vector.
C7_Witness ==
    \E this \in Nodes, child \in Nodes :
        /\ Held(this) /\ Held(child) /\ this # child
        /\ ~heap[child].dirty
        /\ \E d \in Range(heap[child].children) : ~heap[d].dirty
        /\ Forest(heap)
        /\ LET r == add_child(heap, this, child)
           IN  ~r.panic /\ \A d \in Desc(r.h, child) : r.h[d].dirty

\* ---------------------------------------------------------------- C8
\* C8: drawing a node that passes the culling test and owns geometry
\* populates its mesh slot and issues one indexed draw call for it.
C8_LazyMesh ==
    \A n \in Nodes, cam \in Cameras :
        (Held(n) /\ heap[n].geometry # "none" /\ Visible(heap, n, cam)) =>
            LET r == draw(heap, n, cam, {n}, <<>>)
            IN  ~r.panic =>
                    /\ r.h[n].gl_mesh # "unset"
                    /\ Cardinality(Events(r.log, "DrawElements", n)) = 1

\* ---------------------------------------------------------------- C9
\* The call that gave r wrote no mesh slot that was populated before it.
MeshKept(r) ==
    \A m \in Nodes :
        r.h[m].gl_mesh # heap[m].gl_mesh => heap[m].gl_mesh = "unset"

UniformEvents(lg, m, name) ==
    {i \in Events(lg, "set_uniform_matrix4", m) : lg[i][3] = name}

\* C10: in a frame, every node drawn (not culled, owning geometry) gets
\* u_model once, with its world matrix, and u_proj_view once, with the
\* camera's matrix, before its draw call; a culled node gets neither.
C10_UniformBinding ==
    \A n \in Nodes, cam \in Cameras :
        Held(n) =>
            LET r == draw(heap, n, cam, {n}, <<>>)
            IN  ~r.panic =>
                  \A m \in Drawn(r.log) :
                    IF m \in Culled(r.log)
                    THEN Events(r.log, "set_uniform_matrix4", m) = {}
                    ELSE r.h[m].geometry # "none" =>
                      /\ \E i \in 1..Len(r.log) :
                            /\ UniformEvents(r.log, m, "u_model") = {i}
                            /\ r.log[i][4] = r.h[m].world_matrix
                            /\ \A j \in Events(r.log, "DrawElements", m) : i < j
                      /\ \E i \in 1..Len(r.log) :
                            /\ UniformEvents(r.log, m, "u_proj_view") = {i}
                            /\ r.log[i][4] = proj_view_matrix(cam)
                            /\ \A j \in Events(r.log, "DrawElements", m) : i < j

\* --------------------------------------------------------------- C11
\* The calls the handler made for the event at position i of the trace.
CycleCalls(tr, i) ==
    LET later == {j \in EventAt(tr) : j > i}
        last == IF later = {} THEN Len(tr)
                ELSE (CHOOSE j \in later : \A k \in later : j <= k) - 1
    IN  SubSeq(tr, i + 1, last)

Count(c, name) == Cardinality({k \in 1..Len(c) : c[k][1] = name})

\* C11: for every RedrawRequested event the driver clears, draws the root
\* node and swaps buffers, in this order and each once; for any other
\* event it does none of the three.
C11_RenderCycle ==
    \A i \in EventAt(trace) :
        LET c == CycleCalls(trace, i)
        IN  IF trace[i][2] = "RedrawRequested"
            THEN /\ Len(c) >= 3
                 /\ c[1][1] = "Clear"
                 /\ c[2][1] = "draw"
                 /\ c[3][1] = "swap_buffers"
                 /\ Count(c, "Clear") = 1
                 /\ Count(c, "draw") = 1
                 /\ Count(c, "swap_buffers") = 1
            ELSE /\ Count(c, "Clear") = 0
                 /\ Count(c, "draw") = 0
                 /\ Count(c, "swap_buffers") = 0

\* --------------------------------------------------------------- C12
\* The positions of the Resized events in the trace.
ResizedAt(tr) == {i \in EventAt(tr) : tr[i][2] = "Resized"}

\* C12: once the handler has returned from a Resized event, and so before
\* the next frame, the driver's camera has the aspect ratio of the last
\* size received.
C12_ResizeForwarding ==
    \A i \in ResizedAt(trace) :
        (\A j \in ResizedAt(trace) : j <= i) =>
            /\ renderer.camera # None
            /\ renderer.camera.aspect = trace[i][3]

\* --------------------------------------------------------------- C13
\* The distance, in tenths, from the camera to the centre along the axis
\* an unrotated camera looks down (-z).
Depth10(cam, pos) == 10 * (cam.position[3] - pos[3])

\* C13: the default camera reports the unit sphere at the origin visible
\* and the one at (0,0,-500) not visible, and an unrotated camera reports
\* visible every unit sphere whose centre is in front of it at a distance
\* between near and far.
C13_CullingEndToEnd ==
    call.fn = "intersects_sphere" =>
        LET cam == call.args[1]
            pos == call.args[2]
        IN  /\ (cam = CameraNew /\ pos = <<0, 0, 0>>) => call.ret
            /\ (cam = CameraNew /\ pos = <<0, 0, 0 - 500>>) => ~call.ret
            /\ (/\ cam.near10 <= Depth10(cam, pos)
                /\ Depth10(cam, pos) <= cam.far10) => call.ret

\* --------------------------------------------------------------- C14
\* n and its ancestors along parent links that resolve.
RECURSIVE Chain(_, _)

Chain(h, n) ==
    IF Live(h, h[n].parent) THEN {n} \cup Chain(h, h[n].parent) ELSE {n}

\* The component-wise sum of the positions of n and its ancestors.
RECURSIVE PositionSum(_, _)

PositionSum(h, n) ==
    LET p == h[n].position
    IN  IF Live(h, h[n].parent)
        THEN LET q == PositionSum(h, h[n].parent)
             IN  <<p[1] + q[1], p[2] + q[2], p[3] + q[3]>>
        ELSE p

Translation(m) == <<At(m, 12), At(m, 13), At(m, 14)>>

Unrotated(h, n) ==
    /\ h[n].rotation = Object3DNew.rotation
    /\ h[n].scale = Object3DNew.scale

\* C14: in a chain built with add_child whose nodes all have identity
\* rotation and unit scale, the translation column of a node's
\* world_matrix() is the sum of the positions of the node and all its
\* ancestors, in whatever order set_position and add_child were called.
C14_ParentComposition ==
    Forest(heap) =>
        \A n \in Nodes :
            (Held(n) /\ \A a \in Chain(heap, n) : Unrotated(heap, a)) =>
                LET r == world_matrix(heap, n, {n}, <<>>)
                IN  /\ ~r.panic
                    /\ Translation(r.ret) = PositionSum(heap, n)

\* The child at (0,2,0) of a root at (1,0,0): its world translation is
\* (1,2,0).
C14_Witness ==
    /\ Forest(heap)
    /\ \E n \in Nodes :
          /\ Held(n)
          /\ Live(heap, heap[n].parent)
          /\ heap[heap[n].parent].position = <<1, 0, 0>>
          /\ heap[n].position = <<0, 2, 0>>
          /\ Translation(world_matrix(heap, n, {n}, <<>>).ret) = <<1, 2, 0>>

\* --------------------------------------------------------------- C15
\* C15: local_matrix() of a dirty node with identity rotation and unit
\* scale is translation_matrix of its position, entry for entry: the
\* identity 3x3 block, the position in entries 12..14, bottom row 0,0,0,1.
C15_IdentityComposition ==
    \A n \in Nodes :
        (Held(n) /\ heap[n].dirty /\ Unrotated(heap, n)) =>
            LET r == local_matrix(heap, n, <<>>)
                p == heap[n].position
            IN  /\ ~r.panic
                /\ r.ret = translation_matrix(p)
                /\ r.ret = <<1, 0, 0, 0,
                             0, 1, 0, 0,
                             0, 0, 1, 0,
                             p[1], p[2], p[3], 1>>

\* A dirty node moved off the origin on all three axes, whose cached local
\* matrix is still the identity.
C15_Witness ==
    \E n \in Nodes :
        /\ Held(n) /\ heap[n].dirty /\ Unrotated(heap, n)
        /\ heap[n].position = <<0 - 3, 4, 7>>
        /\ heap[n].local_matrix = IDENTITY_MATRIX
        /\ Translation(local_matrix(heap, n, <<>>).ret) = <<0 - 3, 4, 7>>

\* --------------------------------------------------------------- C16
\* The owning references to n: the caller's handle and the entries of live
\* nodes' children vectors.
Owned(h, n) ==
    \/ h[n].held
    \/ \E m \in Nodes : Live(h, m) /\ n \in Range(h[m].children)

\* n is kept alive from a handle the caller holds.
Rooted(h, n) ==
    \E m \in Nodes : h[m].held /\ Live(h, m) /\ n \in {m} \cup Desc(h, m)

\* Releasing the caller's handle on a parent that is in no children vector
\* destroys it, whatever back-references its children hold.
LastOwnerRelease ==
    \A p \in Nodes :
        (Held(p) /\ \A m \in Nodes :
                       Live(heap, m) => p \notin Range(heap[m].children)) =>
            ~Live(drop(heap, p).h, p)

\* C16 as stated: a back-reference never keeps a parent alive, the parent
\* is destroyed when its last owning reference is released, and in no
\* reachable state are nodes kept alive by an ownership cycle.
C16_AnySequence ==
    /\ \A n \in Nodes : Live(heap, n) => Owned(heap, n)
    /\ LastOwnerRelease
    /\ \A n \in Nodes : Live(heap, n) => Rooted(heap, n)

\* C16 amended: the same, with the absence of ownership cycles holding
\* where the nodes form a forest (add_child never attached a node under
\* itself, under one of its descendants, or under two parents).
C16_NonOwningParent ==
    /\ \A n \in Nodes : Live(heap, n) => Owned(heap, n)
    /\ LastOwnerRelease
    /\ Forest(heap) =>
          /\ \A n \in Nodes : Live(heap, n) => Rooted(heap, n)
          /\ \A n \in Nodes : n \notin Desc(heap, n)

\* A parent destroyed while a child the caller still holds refers to it.
C16_Witness ==
    \E c \in Nodes :
        /\ Held(c)
        /\ heap[c].parent # None
        /\ ~Live(heap, heap[c].parent)
        /\ Forest(heap)

\* --------------------------------------------------------------- C17
\* C17: the same setter called twice in a row with the same argument leaves
\* every node as the first call left it.
C17_SetterIdempotence ==
    \A n \in Nodes :
        Held(n) =>
            /\ \A g \in Geometries :
                  LET r1 == set_geometry(heap, n, g)
                  IN  ~r1.panic => set_geometry(r1.h, n, g).h = r1.h
            /\ \A pos \in Positions :
                  LET r1 == set_position(heap, n, pos)
                  IN  ~r1.panic => set_position(r1.h, n, pos).h = r1.h
            /\ \A rot \in Rotations :
                  LET r1 == set_rotation(heap, n, rot)
                  IN  ~r1.panic => set_rotation(r1.h, n, rot).h = r1.h
            /\ \A sc \in Scales :
                  LET r1 == set_scale(heap, n, sc)
                  IN  ~r1.panic => set_scale(r1.h, n, sc).h = r1.h

\* A clean node with a clean child: the first call changes the node and
\* the child, the second changes nothing.
C17_Witness ==
    \E n \in Nodes, pos \in Positions :
        /\ Held(n)
        /\ ~heap[n].dirty
        /\ \E c \in Range(heap[n].children) : ~heap[c].dirty
        /\ LET r1 == set_position(heap, n, pos)
           IN  /\ ~r1.panic
               /\ r1.h # heap
               /\ \A c \in Range(heap[n].children) : r1.h[c].dirty
               /\ set_position(r1.h, n, pos).h = r1.h

\* --------------------------------------------------------------- C18
\* C18: on an acyclic single-parent tree no public call borrows mutably a
\* node that is already borrowed: every setter, add_child, local_matrix,
\* world_matrix and draw returns without a BorrowMutError panic.
C18_BorrowSafety ==
    Forest(heap) =>
        \A n \in Nodes :
            Held(n) =>
                /\ \A r \in SetterResults(n) : ~r.panic
                /\ ~local_matrix(heap, n, <<>>).panic
                /\ ~world_matrix(heap, n, {n}, <<>>).panic
                /\ \A c \in Nodes :
                      (Held(c) /\ Forest(add_child(heap, n, c).h)) =>
                          ~add_child(heap, n, c).panic
                /\ \A cam \in Cameras : ~draw(heap, n, cam, {n}, <<>>).panic

\* --------------------------------------------------------------- C19
\* C19: without handle releases, on a forest, every node in the subtree of
\* a dirty node is dirty.
C19_DirtyDownwardClosed ==
    Forest(heap) =>
        \A n \in Nodes :
            heap[n].dirty => \A d \in Desc(heap, n) : heap[d].dirty

\* A moved node, dirty, above a non-empty subtree, next to a node that a
\* read left clean.
C19_Witness ==
    /\ Forest(heap)
    /\ \E n \in Nodes, m \in Nodes :
          /\ heap[n].dirty
          /\ heap[n].position # Object3DNew.position
          /\ Desc(heap, n) # {}
          /\ ~heap[m].dirty

\* --------------------------------------------------------------- C20
\* The positions in the log of the recomputations made on node a.
Recomputed(lg, a) ==
    Events(lg, "compute_local_matrix", a) \cup Events(lg, "matrix_mul_4x4", a)

\* C20: world_matrix() on a dirty node whose parent link resolves, when it
\* returns, has recomputed every ancestor before multiplying for the
\* node, has set the node's world matrix to the parent's world matrix times
\* the node's local matrix, and leaves the node and every ancestor on its
\* live parent chain clean.
C20_AncestorsFirst ==
    \A n \in Nodes :
        (Held(n) /\ heap[n].dirty /\ Live(heap, heap[n].parent)) =>
            LET p == heap[n].parent
                r == world_matrix(heap, n, {n}, <<>>)
            IN  ~r.panic =>
                  /\ \A a \in Chain(heap, n) : ~r.h[a].dirty
                  /\ r.h[p].world_matrix = world_matrix(heap, p, {p}, <<>>).ret
                  /\ r.h[n].world_matrix =
                        matrix_mul_4x4(r.h[p].world_matrix, r.h[n].local_matrix)
                  /\ r.ret = r.h[n].world_matrix
                  /\ \A a \in Chain(heap, n) \ {n} :
                        \A i \in Recomputed(r.log, a) :
                            \A j \in Events(r.log, "matrix_mul_4x4", n) : i < j

\* A dirty node under a dirty, moved parent that has a parent of its own:
\* the call recomputes the three of them.
C20_Witness ==
    \E n \in Nodes :
        /\ Held(n) /\ heap[n].dirty /\ Live(heap, heap[n].parent)
        /\ LET p == heap[n].parent
               r == world_matrix(heap, n, {n}, <<>>)
           IN  /\ heap[p].dirty
               /\ Live(heap, heap[p].parent)
               /\ heap[p].world_matrix # Local(heap[p])
               /\ ~r.panic
               /\ Recomputed(r.log, heap[p].parent) # {}
               /\ r.ret # heap[n].world_matrix

\* --------------------------------------------------------------- C21
\* The nodes whose dirty flag the call that led from h to h2 cleared.
Cleared(h, h2) == {m \in Nodes : h[m].dirty /\ ~h2[m].dirty}

\* The nodes of S and the ancestors on their parent links that resolve:
\* the nodes world_matrix can recurse to from S.
RECURSIVE Up(_, _)

Up(h, S) ==
    LET T == S \cup {h[m].parent : m \in {x \in S : Live(h, h[x].parent)}}
    IN  IF T = S THEN S ELSE Up(h, T)

\* C21: a dirty flag is cleared only inside world_matrix on its node.  No
\* setter, add_child or local_matrix clears any flag; world_matrix on n
\* clears flags only on n and the ancestors on its parent chain; draw on n
\* clears flags only on the nodes draw was entered on and their ancestors,
\* which on a forest are n and the ancestors of n.
C21_ClearedOnlyByWorldMatrix ==
    \E forest \in {Forest(heap)} :
        \A n \in Nodes :
            Held(n) =>
                /\ \A g \in Geometries :
                      Cleared(heap, set_geometry(heap, n, g).h) = {}
                /\ \A pos \in Positions :
                      Cleared(heap, set_position(heap, n, pos).h) = {}
                /\ \A rot \in Rotations :
                      Cleared(heap, set_rotation(heap, n, rot).h) = {}
                /\ \A sc \in Scales :
                      Cleared(heap, set_scale(heap, n, sc).h) = {}
                /\ \A c \in Nodes :
                      Held(c) => Cleared(heap, add_child(heap, n, c).h) = {}
                /\ Cleared(heap, local_matrix(heap, n, <<>>).h) = {}
                /\ Cleared(heap, world_matrix(heap, n, {n}, <<>>).h)
                      \subseteq Up(heap, {n})
                /\ \A cam \in Cameras :
                      \E r \in {draw(heap, n, cam, {n}, <<>>)} :
                          \E cleared \in {Cleared(heap, r.h)} :
                              /\ cleared \subseteq Up(heap, Drawn(r.log))
                              /\ forest => cleared \subseteq Up(heap, {n})

\* A dirty node under a dirty parent: local_matrix and a setter on the
\* node leave both flags set, world_matrix on the node clears both, and
\* world_matrix on the parent clears the parent's flag only.
C21_Witness ==
    \E n \in Nodes, pos \in Positions :
        /\ Held(n) /\ heap[n].dirty
        /\ Live(heap, heap[n].parent)
        /\ Held(heap[n].parent)
        /\ heap[heap[n].parent].dirty
        /\ LET p == heap[n].parent
           IN  /\ Cleared(heap, local_matrix(heap, n, <<>>).h) = {}
               /\ Cleared(heap, set_position(heap, n, pos).h) = {}
               /\ Cleared(heap, world_matrix(heap, n, {n}, <<>>).h) = {n, p}
               /\ Cleared(heap, world_matrix(heap, p, {p}, <<>>).h) = {p}

\* --------------------------------------------------------------- C22
\* C22: local_matrix() on a dirty node stores T*R*S of the node's current
\* transform in the cached local matrix and returns it, and changes nothing
\* else: the flag stays set, the cached world matrix and every other node
\* are as before.  On a clean node it changes nothing and returns the
\* cache.
C22_LocalMatrixFrame ==
    \A n \in Nodes :
        Held(n) =>
            \E r \in {local_matrix(heap, n, <<>>)} :
                /\ ~r.panic
                /\ r.ret = r.h[n].local_matrix
                /\ IF heap[n].dirty
                   THEN /\ r.h = [heap EXCEPT ![n].local_matrix =
                                     matrix_mul_4x4(
                                         matrix_mul_4x4(
                                             translation_matrix(
                                                 heap[n].position),
                                             rotation_matrix_from_quat(
                                                 heap[n].rotation)),
                                         scale_matrix(heap[n].scale))]
                        /\ r.h[n].dirty
                        /\ r.h[n].world_matrix = heap[n].world_matrix
                   ELSE r.h = heap

\* A dirty node moved, turned half a turn about z and stretched along x,
\* with a stale cache: the call stores the composed matrix and leaves the
\* world matrix at the identity.
C22_Witness ==
    \E n \in Nodes :
        /\ Held(n) /\ heap[n].dirty
        /\ heap[n].position = <<1, 2, 5>>
        /\ heap[n].rotation = <<0, 0, 1, 0>>
        /\ heap[n].scale = <<2, 1, 1>>
        /\ heap[n].local_matrix = IDENTITY_MATRIX
        /\ \E r \in {local_matrix(heap, n, <<>>)} :
              /\ r.h[n].local_matrix = <<0 - 2, 0, 0, 0,
                                         0, 0 - 1, 0, 0,
                                         0, 0, 1, 0,
                                         1, 2, 5, 1>>
              /\ r.h[n].world_matrix = IDENTITY_MATRIX
              /\ r.h[n].dirty

\* --------------------------------------------------------------- C23
\* The nodes mark_dirty was entered on and found clean, and those it was
\* entered on and found dirty.
Marked(lg) ==
    {m \in Nodes : \E i \in 1..Len(lg) : lg[i] = <<"mark_dirty", m, "set">>}

Skipped(lg) ==
    {m \in Nodes : \E i \in 1..Len(lg) : lg[i] = <<"mark_dirty", m, "skip">>}

\* The walk r that mark_dirty made from n over the heap h0; forest tells
\* whether the nodes of h0 form a forest.
\* From a dirty n it enters no child and changes nothing.  From a clean n
\* it sets the flag of the clean nodes it enters and nothing else; it
\* enters every child of a node it found clean, so also the siblings of a
\* dirty child; a node it finds dirty was dirty before or was entered
\* earlier in the walk; on a forest it enters no node twice and no
\* descendant of a node it found dirty, and ends without a panic.
ShortCircuit(h0, n, r, forest) ==
    \E marked \in {Marked(r.log)}, skipped \in {Skipped(r.log)} :
        /\ forest => ~r.panic
        /\ ~r.panic =>
              /\ r.h = [m \in Nodes |->
                           IF m \in marked
                           THEN [h0[m] EXCEPT !.dirty = TRUE] ELSE h0[m]]
              /\ \A m \in marked : ~h0[m].dirty
              /\ h0[n].dirty =>
                    /\ r.log = <<<<"mark_dirty", n, "skip">>>>
                    /\ r.h = h0
              /\ ~h0[n].dirty =>
                    /\ r.log[1] = <<"mark_dirty", n, "set">>
                    /\ \A m \in marked :
                          Range(h0[m].children) \subseteq marked \cup skipped
                    /\ \A m \in skipped : h0[m].dirty \/ m \in marked
                    /\ forest =>
                          /\ marked \cap skipped = {}
                          /\ Len(r.log) = Cardinality(marked \cup skipped)
                          /\ \A d \in skipped :
                                Desc(h0, d) \cap (marked \cup skipped) = {}

\* C23: the dirty propagation every setter starts on its node
\* short-circuits: a dirty descendant stops the walk below it, the walk
\* goes on into that descendant's clean siblings, and on a node that is
\* already dirty it enters no child and changes no state.
C23_PropagationShortCircuit ==
    \E forest \in {Forest(heap)} :
        \A n \in Nodes :
            Held(n) =>
                /\ \A g \in Geometries :
                      ShortCircuit([heap EXCEPT ![n].geometry = g], n,
                                   set_geometry(heap, n, g), forest)
                /\ \A pos \in Positions :
                      ShortCircuit([heap EXCEPT ![n].position = pos], n,
                                   set_position(heap, n, pos), forest)
                /\ \A rot \in Rotations :
                      ShortCircuit([heap EXCEPT ![n].rotation = rot], n,
                                   set_rotation(heap, n, rot), forest)
                /\ \A sc \in Scales :
                      ShortCircuit([heap EXCEPT ![n].scale = sc], n,
                                   set_scale(heap, n, sc), forest)

\* A clean node whose first child is dirty and whose second child is
\* clean: a setter on the node skips the first child and marks the second.
C23_Witness ==
    /\ Forest(heap)
    /\ \E n \in Nodes, pos \in Positions :
          /\ Held(n) /\ ~heap[n].dirty
          /\ Len(heap[n].children) = 2
          /\ heap[heap[n].children[1]].dirty
          /\ ~heap[heap[n].children[2]].dirty
          /\ set_position(heap, n, pos).log =
                <<<<"mark_dirty", n, "set">>,
                  <<"mark_dirty", heap[n].children[1], "skip">>,
                  <<"mark_dirty", heap[n].children[2], "set">>>>

\* --------------------------------------------------------------- C24
\* C24: world_matrix() on a dirty node whose parent link is absent, or
\* present but no longer resolving, returns without a panic, stores the
\* local matrix of the current transform as both the cached local and the
\* cached world matrix, returns it, clears the flag and changes nothing
\* else.
C24_NoParentFallback ==
    \A n \in Nodes :
        (Held(n) /\ heap[n].dirty /\ ~Live(heap, heap[n].parent)) =>
            \E r \in {world_matrix(heap, n, {n}, <<>>)} :
                /\ ~r.panic
                /\ r.ret = Local(heap[n])
                /\ r.h = [heap EXCEPT ![n].local_matrix = Local(heap[n]),
                                      ![n].world_matrix = Local(heap[n]),
                                      ![n].dirty = FALSE]

\* A dirty, moved node the caller holds, whose parent was destroyed and
\* whose cached world matrix differs from its local matrix.
C24_Witness ==
    \E n \in Nodes :
        /\ Held(n) /\ heap[n].dirty
        /\ heap[n].parent # None
        /\ ~Live(heap, heap[n].parent)
        /\ heap[n].world_matrix # Local(heap[n])
        /\ world_matrix(heap, n, {n}, <<>>).h[n].world_matrix = Local(heap[n])

\* --------------------------------------------------------------- C25
\* What a setter on n that stored its argument in h0 may have changed on
\* the way to h2: dirty flags, from clear to set, of n and the nodes below
\* n, and nothing else on any node.
SetterFrame(h0, n, h2) ==
    \A m \in Nodes :
        /\ [h2[m] EXCEPT !.dirty = h0[m].dirty] = h0[m]
        /\ h0[m].dirty => h2[m].dirty
        /\ m \notin {n} \cup Desc(h0, n) => h2[m] = h0[m]

\* The fields of n in which the heaps h and h2 differ, dirty aside.
Stored(h, n, h2) ==
    {f \in {"position", "rotation", "scale", "geometry", "parent",
             "children", "local_matrix", "world_matrix", "gl_mesh",
             "shader", "state", "held"} : h[n][f] # h2[n][f]}

\* C25: a setter on X stores its argument in X and sets dirty flags on X
\* and in X's subtree; every node outside the subtree is left as it was,
\* and no cached local or world matrix of any node is rewritten.
C25_SetterFrame ==
    \A n \in Nodes :
        Held(n) =>
            /\ \A g \in Geometries :
                  \E r \in {set_geometry(heap, n, g)} :
                      /\ SetterFrame([heap EXCEPT ![n].geometry = g], n, r.h)
                      /\ Stored(heap, n, r.h) \subseteq {"geometry"}
            /\ \A pos \in Positions :
                  \E r \in {set_position(heap, n, pos)} :
                      /\ SetterFrame([heap EXCEPT ![n].position = pos], n, r.h)
                      /\ Stored(heap, n, r.h) \subseteq {"position"}
            /\ \A rot \in Rotations :
                  \E r \in {set_rotation(heap, n, rot)} :
                      /\ SetterFrame([heap EXCEPT ![n].rotation = rot], n, r.h)
                      /\ Stored(heap, n, r.h) \subseteq {"rotation"}
            /\ \A sc \in Scales :
                  \E r \in {set_scale(heap, n, sc)} :
                      /\ SetterFrame([heap EXCEPT ![n].scale = sc], n, r.h)
                      /\ Stored(heap, n, r.h) \subseteq {"scale"}

\* A clean node between a clean parent and a clean child, each with its
\* caches filled: a setter on it marks the node and the child, leaves the
\* parent clean and leaves the three nodes' cached matrices as they were.
C25_Witness ==
    /\ Forest(heap)
    /\ \E n \in Nodes, pos \in Positions :
          /\ Held(n) /\ ~heap[n].dirty
          /\ Live(heap, heap[n].parent)
          /\ ~heap[heap[n].parent].dirty
          /\ \E c \in Range(heap[n].children) : ~heap[c].dirty
          /\ \E r \in {set_position(heap, n, pos)} :
                /\ r.h[n].dirty
                /\ \A c \in Range(heap[n].children) : r.h[c].dirty
                /\ r.h[heap[n].parent] = heap[heap[n].parent]
                /\ r.h[n].position # heap[n].position
                /\ r.h[n].local_matrix # Local(r.h[n])

\* --------------------------------------------------------------- C26
\* n and its consecutive dirty ancestors, up to and without the first clean
\* one; empty when n is clean.
RECURSIVE DirtyRun(_, _)

DirtyRun(h, n) ==
    IF ~h[n].dirty THEN {}
    ELSE IF Live(h, h[n].parent) THEN {n} \cup DirtyRun(h, h[n].parent)
    ELSE {n}

\* The walk r of mark_dirty from n entered only nodes of n's subtree, each
\* at most once.
MarkBounded(n, r) ==
    /\ ~r.panic
    /\ \A i \in 1..Len(r.log) :
          /\ r.log[i][1] = "mark_dirty"
          /\ r.log[i][2] \in {n} \cup Desc(heap, n)
    /\ Len(r.log) <= Cardinality({n} \cup Desc(heap, n))

\* C26: on a forest, world_matrix() on n returns after recomputing n and
\* its consecutive dirty ancestors, each once, and nothing else: the first
\* clean ancestor and every node above it are neither recomputed nor
\* changed, and the clean ancestor's cached world matrix is the one its
\* dirty child is multiplied by; on a clean n it does no work.  mark_dirty
\* from a setter returns after entering at most the nodes of the subtree.
C26_BoundedRecomputation ==
    Forest(heap) =>
        \A n \in Nodes :
            Held(n) =>
                /\ \E r \in {world_matrix(heap, n, {n}, <<>>)} :
                      /\ ~r.panic
                      /\ \A m \in DirtyRun(heap, n) :
                            /\ Cardinality(Events(r.log,
                                   "compute_local_matrix", m)) = 1
                            /\ Cardinality(Events(r.log,
                                   "matrix_mul_4x4", m)) =
                                   IF Live(heap, heap[m].parent) THEN 1 ELSE 0
                            /\ ~r.h[m].dirty
                            /\ (Live(heap, heap[m].parent) /\
                                  ~heap[heap[m].parent].dirty) =>
                                  r.h[m].world_matrix =
                                      matrix_mul_4x4(
                                          heap[heap[m].parent].world_matrix,
                                          Local(heap[m]))
                      /\ \A m \in Nodes \ DirtyRun(heap, n) :
                            /\ Recomputed(r.log, m) = {}
                            /\ r.h[m] = heap[m]
                      /\ Len(r.log) <= 2 * Cardinality(DirtyRun(heap, n))
                      /\ Len(r.log) <= 2 * Cardinality(Chain(heap, n))
                /\ \A pos \in ChainPositions :
                      MarkBounded(n, set_position(heap, n, pos))

\* A dirty node under a dirty parent under a clean grandparent: the call
\* recomputes the two dirty nodes, each once, and leaves the grandparent
\* alone.
C26_Witness ==
    /\ Forest(heap)
    /\ \E n \in Nodes :
          /\ Held(n) /\ heap[n].dirty
          /\ Live(heap, heap[n].parent)
          /\ Live(heap, heap[heap[n].parent].parent)
          /\ LET p == heap[n].parent
                 g == heap[heap[n].parent].parent
                 r == world_matrix(heap, n, {n}, <<>>)
             IN  /\ heap[p].dirty
                 /\ ~heap[g].dirty
                 /\ DirtyRun(heap, n) = {n, p}
                 /\ Recomputed(r.log, g) = {}
                 /\ Len(r.log) = 4
                 /\ r.h[g] = heap[g]
                 /\ ~r.h[n].dirty /\ ~r.h[p].dirty

\* --------------------------------------------------------------- C27
\* The position in the trace of the event handled last.
LastEvent(tr) == CHOOSE i \in EventAt(tr) : \A j \in EventAt(tr) : j <= i

\* The handler run made last was a RedrawRequested cycle: it cleared and
\* then presented.
FramePresented ==
    /\ trace # <<>>
    /\ trace[LastEvent(trace)][2] = "RedrawRequested"
    /\ \E c \in {CycleCalls(trace, LastEvent(trace))} :
          \E i \in 1..Len(c), j \in 1..Len(c) :
              /\ i < j
              /\ c[i][1] = "Clear"
              /\ c[j][1] = "swap_buffers"

\* Every handler run in the trace ended with request_redraw, and the
\* request is on the window.
RedrawKeptRequested ==
    trace # <<>> =>
        /\ renderer.redraw_requested
        /\ \A i \in EventAt(trace) :
              \E c \in {CycleCalls(trace, i)} :
                  /\ c # <<>>
                  /\ c[Len(c)][1] = "request_redraw"

\* The control flow is Exit exactly when the event handled last was
\* CloseRequested.
ExitOnClose ==
    renderer.control_flow = "Exit" <=>
        (trace # <<>> /\ trace[LastEvent(trace)][2] = "CloseRequested")

\* C27: the handler requests a redraw at the end of every run; under fair
\* event delivery, as long as no CloseRequested is handled, RedrawRequested
\* cycles that clear and then present occur again and again; handling
\* CloseRequested leaves the control flow at Exit.
C27_ContinuousRedraw ==
    /\ []RedrawKeptRequested
    /\ []ExitOnClose
    /\ []<>(renderer.control_flow = "Exit" \/ FramePresented)

\* Two presented frames with a resize handled between them, the loop still
\* running with the next redraw requested.
C27_Witness ==
    /\ renderer.control_flow = "Wait"
    /\ renderer.redraw_requested
    /\ FramePresented
    /\ \E i \in EventAt(trace), j \in EventAt(trace) :
          /\ i < j /\ j < LastEvent(trace)
          /\ trace[i][2] = "RedrawRequested"
          /\ trace[j][2] = "Resized"

====
